---- MODULE Spec2Model ----
(***************************************************************************)
(* The collectors of the grouping-by crate (src/src/lib.rs): one call of   *)
(* grouping_by, grouping_by_as_set, counter, grouping_by_max,              *)
(* grouping_by_min or grouping_by_summing on an iterator over Vector       *)
(* items, executed one loop iteration at a time.                           *)
(*                                                                         *)
(* A HashMap<K, V> is a function whose DOMAIN is the set of keys present;  *)
(* a HashSet is a set; a Vec is a sequence.  The closures are the ones the *)
(* tests pass: the key is a field of the item (x or y), the comparator is  *)
(* i32::cmp on x, the finisher and the summed value are z.                 *)
(***************************************************************************)
EXTENDS Integers, Sequences, FiniteSets, TLC

VARIABLES S, keyf, op, type_ord, pc, i, map, aux, calls, result

vars == <<S, keyf, op, type_ord, pc, i, map, aux, calls, result>>

(* ------------------------------ bounds -------------------------------- *)

MaxLen == 3

XVals == 1..2
YVals == 2..3
ZVals == -1..1

Items == [x : XVals, y : YVals, z : ZVals]

SeqsUpTo(n) == UNION {[1..m -> Items] : m \in 0..n}

(* tests/common.rs, VECTOR_ARRAY *)
VECTOR_ARRAY ==
  << [x |-> 1, y |-> 2, z |-> 4],
     [x |-> 1, y |-> 3, z |-> 3],
     [x |-> 2, y |-> 2, z |-> 2],
     [x |-> 2, y |-> 2, z |-> 1] >>

KeyFns == {"x", "y"}

(* ------------------------------ closures ------------------------------ *)

(* |vector| vector.y  (or |point| point.x) *)
key(item) == IF keyf = "x" THEN item.x ELSE item.y

(* |vector1, vector2| vector1.x.cmp(&vector2.x) *)
comparator(a, b) ==
  IF a.x < b.x THEN "Less"
  ELSE IF a.x > b.x THEN "Greater"
  ELSE "Equal"

(* |vector| vector.z *)
finisher(item) == item.z

(* the value closure of grouping_by_summing *)
value(item) == item.z

(* ------------------------------ HashMap ------------------------------- *)

EmptyMap == <<>>

(* map.entry(k).or_insert(d): the map with k bound to d when k is vacant *)
OrInsert(m, k, d) == IF k \in DOMAIN m THEN m ELSE m @@ (k :> d)

(* ------------------------- one loop iteration ------------------------- *)

(* mutant: the item is put at the front of the list *)
GroupingByStep_Prepend(m, item) ==
  [OrInsert(m, key(item), <<>>) EXCEPT ![key(item)] = <<item>> \o @]

(* mutant: a fresh Vec is inserted under the key on every item *)
GroupingByStep_Reset(m, item) == (key(item) :> <<item>>) @@ m

(* map.entry(key(&item)).or_insert_with(Vec::new).push(item) *)
GroupingByStep(m, item) ==
  [OrInsert(m, key(item), <<>>) EXCEPT ![key(item)] = Append(@, item)]

(* mutant: the set of the key is replaced by the item alone *)
GroupingByAsSetStep_Replace(m, item) ==
  [OrInsert(m, key(item), {}) EXCEPT ![key(item)] = {item}]

(* map.entry(key(&item)).or_insert_with(HashSet::new).insert(item) *)
GroupingByAsSetStep(m, item) ==
  [OrInsert(m, key(item), {}) EXCEPT ![key(item)] = @ \cup {item}]

(* mutant: the entry starts at 1 and is then incremented *)
CounterStep_InsertOne(m, item) ==
  [OrInsert(m, key(item), 1) EXCEPT ![key(item)] = @ + 1]

(* *map.entry(key(&item)).or_insert(0) += 1 *)
CounterStep(m, item) ==
  [OrInsert(m, key(item), 0) EXCEPT ![key(item)] = @ + 1]

(* mutant: *v = value(&item) *)
GroupingBySummingStep_Assign(m, item) ==
  [OrInsert(m, key(item), 0) EXCEPT ![key(item)] = value(item)]

(* mutant: an item whose value is the default is skipped *)
GroupingBySummingStep_SkipZero(m, item) ==
  IF value(item) = 0 THEN m
  ELSE [OrInsert(m, key(item), 0) EXCEPT ![key(item)] = @ + value(item)]

(* let v = map.entry(key(&item)).or_default(); *v += value(&item)        *)
(* (V is i32 in the tests; with |value| <= 4 and at most MaxLen + 1 items *)
(* a sum stays far from the i32 limits, so += never overflows here)       *)
GroupingBySummingStep(m, item) ==
  [OrInsert(m, key(item), 0) EXCEPT ![key(item)] = @ + value(item)]

(* mutant: a tie replaces the stored item too *)
ShouldReplace_OnTie(item, stored, ord) ==
  comparator(item, stored) \in {ord, "Equal"}

(* mutant: the comparator's arguments are swapped *)
ShouldReplace_Swapped(item, stored, ord) == comparator(stored, item) = ord

(* comparator(&item, entry.get()) == type_ord *)
ShouldReplace(item, stored, ord) == comparator(item, stored) = ord

(* match aux.entry(key) { Occupied => ..., Vacant => entry.insert(item) } *)
MinMaxStep(m, item, ord) ==
  IF key(item) \in DOMAIN m
  THEN IF ShouldReplace(item, m[key(item)], ord)
       THEN [m EXCEPT ![key(item)] = item]
       ELSE m
  ELSE m @@ (key(item) :> item)

(* ------------------------------ the calls ----------------------------- *)

Init ==
  /\ S \in SeqsUpTo(MaxLen) \cup {VECTOR_ARRAY}
  /\ keyf \in KeyFns
  /\ op = "none"
  /\ type_ord = "none"
  /\ pc = "idle"
  /\ i = 0
  /\ map = EmptyMap
  /\ aux = EmptyMap
  /\ calls = <<>>
  /\ result = EmptyMap

Enter(o, ord) ==
  /\ op' = o
  /\ type_ord' = ord
  /\ pc' = "loop"
  /\ UNCHANGED <<S, keyf, i, map, aux, calls, result>>

Call_grouping_by ==
  /\ pc = "idle"
  /\ Enter("grouping_by", "none")
Call_grouping_by_as_set ==
  /\ pc = "idle"
  /\ Enter("grouping_by_as_set", "none")
Call_counter ==
  /\ pc = "idle"
  /\ Enter("counter", "none")
Call_grouping_by_summing ==
  /\ pc = "idle"
  /\ Enter("grouping_by_summing", "none")
Call_grouping_by_max ==
  /\ pc = "idle"
  /\ Enter("grouping_by_max", "Greater")
(* mutant: grouping_by_min passes Ordering::Greater *)
Call_grouping_by_min_Greater ==
  /\ pc = "idle"
  /\ Enter("grouping_by_min", "Greater")
Call_grouping_by_min ==
  /\ pc = "idle"
  /\ Enter("grouping_by_min", "Less")

MapLoop(m) ==
  /\ i < Len(S)
  /\ map' = m
  /\ i' = i + 1
  /\ UNCHANGED <<S, keyf, op, type_ord, pc, aux, calls, result>>

grouping_by_loop ==
  /\ pc = "loop"
  /\ op = "grouping_by"
  /\ MapLoop(GroupingByStep(map, S[i + 1]))

grouping_by_as_set_loop ==
  /\ pc = "loop"
  /\ op = "grouping_by_as_set"
  /\ MapLoop(GroupingByAsSetStep(map, S[i + 1]))

counter_loop ==
  /\ pc = "loop"
  /\ op = "counter"
  /\ MapLoop(CounterStep(map, S[i + 1]))

grouping_by_summing_loop ==
  /\ pc = "loop"
  /\ op = "grouping_by_summing"
  /\ MapLoop(GroupingBySummingStep(map, S[i + 1]))

(* the iterator is exhausted: the function returns map *)
ReturnMap ==
  /\ pc = "loop"
  /\ op \in {"grouping_by", "grouping_by_as_set", "counter",
             "grouping_by_summing"}
  /\ i = Len(S)
  /\ result' = map
  /\ pc' = "done"
  /\ UNCHANGED <<S, keyf, op, type_ord, i, map, aux, calls>>

(* mutant: the finisher is applied to every item as it arrives *)
min_max_aux_loop_eager ==
  /\ pc = "loop"
  /\ op \in {"grouping_by_max", "grouping_by_min"}
  /\ i < Len(S)
  /\ aux' = MinMaxStep(aux, S[i + 1], type_ord)
  /\ calls' = Append(calls, S[i + 1])
  /\ i' = i + 1
  /\ UNCHANGED <<S, keyf, op, type_ord, pc, map, result>>

(* for item in iterator { match aux.entry(key(&item)) { ... } } *)
min_max_aux_loop ==
  /\ pc = "loop"
  /\ op \in {"grouping_by_max", "grouping_by_min"}
  /\ i < Len(S)
  /\ aux' = MinMaxStep(aux, S[i + 1], type_ord)
  /\ i' = i + 1
  /\ UNCHANGED <<S, keyf, op, type_ord, pc, map, calls, result>>

(* the for loop ends; aux.into_iter() takes the map *)
min_max_aux_into_iter ==
  /\ pc = "loop"
  /\ op \in {"grouping_by_max", "grouping_by_min"}
  /\ i = Len(S)
  /\ pc' = "finish"
  /\ UNCHANGED <<S, keyf, op, type_ord, i, map, aux, calls, result>>

(* .map(|(key, value)| (key, finisher(&value))): the iterator yields the  *)
(* entries in the hash table's order, any order; each call of the closure *)
(* is recorded in calls                                                   *)
min_max_aux_finish ==
  /\ pc = "finish"
  /\ \E k \in DOMAIN aux :
       /\ calls' = Append(calls, aux[k])
       /\ result' = result @@ (k :> finisher(aux[k]))
       /\ aux' = [j \in DOMAIN aux \ {k} |-> aux[j]]
  /\ UNCHANGED <<S, keyf, op, type_ord, pc, i, map>>

(* .collect() *)
min_max_aux_collect ==
  /\ pc = "finish"
  /\ DOMAIN aux = {}
  /\ pc' = "done"
  /\ UNCHANGED <<S, keyf, op, type_ord, i, map, aux, calls, result>>

Next ==
  \/ Call_grouping_by
  \/ Call_grouping_by_as_set
  \/ Call_counter
  \/ Call_grouping_by_summing
  \/ Call_grouping_by_max
  \/ Call_grouping_by_min
  \/ grouping_by_loop
  \/ grouping_by_as_set_loop
  \/ counter_loop
  \/ grouping_by_summing_loop
  \/ ReturnMap
  \/ min_max_aux_loop
  \/ min_max_aux_into_iter
  \/ min_max_aux_finish
  \/ min_max_aux_collect

Spec == Init /\ [][Next]_vars

(* ----------------------- reference definitions ------------------------ *)

Minmax == {"grouping_by_max", "grouping_by_min"}

(* the first n items of the input *)
Prefix(n) == SubSeq(S, 1, n)

(* the keys of the first n items of the input *)
KeySet(n) == {key(S[j]) : j \in 1..n}

(* the items among the first n of the input whose key is k, in input order *)
Bucket(k, n) == SelectSeq(Prefix(n), LAMBDA it : key(it) = k)

Range(seq) == {seq[j] : j \in 1..Len(seq)}

Occurrences(seq, v) == Cardinality({j \in 1..Len(seq) : seq[j] = v})

RECURSIVE SumLen(_, _)
SumLen(m, D) ==
  IF D = {} THEN 0
  ELSE LET k == CHOOSE d \in D : TRUE
       IN Len(m[k]) + SumLen(m, D \ {k})

RECURSIVE FoldAdd(_, _)
FoldAdd(seq, acc) ==
  IF seq = <<>> THEN acc
  ELSE FoldAdd(Tail(seq), acc + value(Head(seq)))

(* the index of the earliest item among the first n with key k that no    *)
(* item among the first n with key k compares strictly ord to             *)
EarliestExtremal(k, ord, n) ==
  LET c == {j \in 1..n :
              /\ key(S[j]) = k
              /\ \A m \in 1..n :
                   key(S[m]) = k => comparator(S[m], S[j]) # ord}
  IN CHOOSE j \in c : \A m \in c : j <= m

(* grouping_by on a whole sequence: the loop of lib.rs 292-296 *)
RECURSIVE grouping_by(_)
grouping_by(seq) ==
  IF seq = <<>> THEN EmptyMap
  ELSE GroupingByStep(grouping_by(SubSeq(seq, 1, Len(seq) - 1)), seq[Len(seq)])

(* ------------------------------- claims ------------------------------- *)

(* C1: for a two-item input [A, B] with key(A) = key(B) and               *)
(* comparator(B, A) = Equal, grouping_by_max and grouping_by_min both     *)
(* return finisher(A) for that key: a tie does not replace the stored     *)
(* item.                                                                  *)
C1_TieKeepsFirst ==
  ( /\ pc = "done"
    /\ op \in Minmax
    /\ Len(S) = 2
    /\ key(S[1]) = key(S[2])
    /\ comparator(S[2], S[1]) = "Equal" )
  => result = (key(S[1]) :> finisher(S[1]))

C1_Witness ==
  /\ pc = "done"
  /\ op = "grouping_by_min"
  /\ Len(S) = 2
  /\ key(S[1]) = key(S[2])
  /\ comparator(S[2], S[1]) = "Equal"
  /\ finisher(S[1]) # finisher(S[2])
  /\ result = (key(S[1]) :> finisher(S[1]))

(* C2 as stated: on VECTOR_ARRAY with key y, comparator by x, finisher z, *)
(* grouping_by_max returns {2: 4, 3: 3} and grouping_by_min returns       *)
(* {2: 4, 3: 3}.                                                          *)
C2_AsStated ==
  ( /\ pc = "done"
    /\ S = VECTOR_ARRAY
    /\ keyf = "y" )
  => /\ op = "grouping_by_max" => result = (2 :> 4 @@ 3 :> 3)
     /\ op = "grouping_by_min" => result = (2 :> 4 @@ 3 :> 3)

(* C2 amended: on VECTOR_ARRAY with key y, comparator by x, finisher z,   *)
(* grouping_by_max returns {2: 2, 3: 3} (the first item with the greatest *)
(* x = 2 in bucket y = 2 has z = 2) and grouping_by_min returns           *)
(* {2: 4, 3: 3}.                                                          *)
C2_Scenario ==
  ( /\ pc = "done"
    /\ S = VECTOR_ARRAY
    /\ keyf = "y" )
  => /\ op = "grouping_by_max" => result = (2 :> 2 @@ 3 :> 3)
     /\ op = "grouping_by_min" => result = (2 :> 4 @@ 3 :> 3)

C2_Witness ==
  /\ pc = "done"
  /\ S = VECTOR_ARRAY
  /\ keyf = "y"
  /\ op = "grouping_by_max"
  /\ result = (2 :> 2 @@ 3 :> 3)

(* C3: grouping_by_max maps each key k to finisher(w), w the earliest     *)
(* item with key k that no item with key k compares strictly Greater      *)
(* than; grouping_by_min likewise with Less.  During the loop the stored  *)
(* item of each key is that item of the prefix processed so far (it is    *)
(* replaced only by a strictly Greater, respectively Less, item).         *)
C3_EarliestExtremal ==
  /\ (pc = "loop" /\ op \in Minmax) =>
       /\ DOMAIN aux = KeySet(i)
       /\ \A k \in DOMAIN aux : aux[k] = S[EarliestExtremal(k, type_ord, i)]
  /\ (pc = "done" /\ op \in Minmax) =>
       \A k \in DOMAIN result :
         result[k] = finisher(S[EarliestExtremal(k, type_ord, Len(S))])

C3_Witness ==
  /\ pc = "done"
  /\ op = "grouping_by_max"
  /\ Len(S) = 3
  /\ key(S[1]) = key(S[2])
  /\ key(S[2]) = key(S[3])
  /\ comparator(S[2], S[1]) = "Greater"
  /\ comparator(S[3], S[2]) = "Equal"
  /\ finisher(S[1]) # finisher(S[2])
  /\ finisher(S[3]) # finisher(S[2])
  /\ result = (key(S[2]) :> finisher(S[2]))

(* C4: every list of grouping_by's result is the subsequence of the input *)
(* with that key, in arrival order: non-empty, duplicates kept.           *)
C4_GroupingByOrder ==
  (pc = "done" /\ op = "grouping_by") =>
    \A k \in DOMAIN result :
      /\ result[k] = Bucket(k, Len(S))
      /\ Len(result[k]) >= 1

C4_Witness ==
  /\ pc = "done"
  /\ op = "grouping_by"
  /\ Len(S) = 3
  /\ key(S[1]) = key(S[3])
  /\ key(S[1]) # key(S[2])
  /\ S[1] # S[3]
  /\ result[key(S[1])] = <<S[1], S[3]>>

(* C5: during grouping_by, after n items the bucket lengths sum to n and  *)
(* every processed occurrence is in exactly one bucket, the one of its    *)
(* key; at the end the lengths sum to len(S).                             *)
C5_NoItemLostOrDuplicated ==
  (op = "grouping_by" /\ pc \in {"loop", "done"}) =>
    /\ SumLen(map, DOMAIN map) = i
    /\ \A v \in Range(S) : \A k \in DOMAIN map :
         Occurrences(map[k], v) =
           IF k = key(v) THEN Occurrences(Prefix(i), v) ELSE 0
    /\ \A v \in Range(Prefix(i)) : key(v) \in DOMAIN map
    /\ pc = "done" =>
         /\ i = Len(S)
         /\ SumLen(result, DOMAIN result) = Len(S)

C5_Witness ==
  /\ op = "grouping_by"
  /\ pc = "loop"
  /\ i = 2
  /\ Len(S) = 3
  /\ S[1] = S[2]
  /\ Cardinality(DOMAIN map) = 1
  /\ SumLen(map, DOMAIN map) = 2

(* C6: counter and grouping_by have the same keys, each count is the      *)
(* length of the key's list, and every count is at least 1.               *)
C6_CounterIsGroupLength ==
  (pc = "done" /\ op = "counter") =>
    /\ DOMAIN result = DOMAIN grouping_by(S)
    /\ \A k \in DOMAIN result :
         /\ result[k] = Len(grouping_by(S)[k])
         /\ result[k] >= 1

C6_Witness ==
  /\ pc = "done"
  /\ op = "counter"
  /\ \E k \in DOMAIN result : result[k] = 2
  /\ \E k \in DOMAIN result : result[k] = 1

(* C7: each set of grouping_by_as_set is the set of distinct items of the *)
(* grouping_by list of that key, so no larger than the list, and as large *)
(* exactly when the list has no two equal items; inserting an item that   *)
(* is already in the set of its key changes nothing.                      *)
C7_SetIsDistinctItems ==
  (op = "grouping_by_as_set" /\ pc \in {"loop", "done"}) =>
    LET gb == grouping_by(Prefix(i))
        before == grouping_by(Prefix(i - 1))
    IN /\ DOMAIN map = DOMAIN gb
       /\ \A k \in DOMAIN map :
            /\ map[k] = Range(gb[k])
            /\ Cardinality(map[k]) <= Len(gb[k])
            /\ Cardinality(map[k]) = Len(gb[k]) <=>
                 \A a, b \in 1..Len(gb[k]) : a # b => gb[k][a] # gb[k][b]
       /\ (i >= 1 /\ \E j \in 1..(i - 1) : S[j] = S[i]) =>
            map = [k \in DOMAIN before |-> Range(before[k])]
       /\ pc = "done" => (i = Len(S) /\ result = map)

C7_Witness ==
  /\ op = "grouping_by_as_set"
  /\ pc = "done"
  /\ Len(S) = 3
  /\ S[1] = S[3]
  /\ S[1] # S[2]
  /\ key(S[1]) = key(S[2])
  /\ result = (key(S[1]) :> {S[1], S[2]})

(* C8: each value of grouping_by_summing is the left-to-right sum, from   *)
(* zero, of value(i) over the items with that key in input order.         *)
C8_SumIsFold ==
  (pc = "done" /\ op = "grouping_by_summing") =>
    \A k \in DOMAIN result : result[k] = FoldAdd(Bucket(k, Len(S)), 0)

C8_Witness ==
  /\ pc = "done"
  /\ op = "grouping_by_summing"
  /\ Cardinality(DOMAIN result) = 2
  /\ \E k \in DOMAIN result : Len(Bucket(k, Len(S))) = 2 /\ result[k] = 2

(* C9: in grouping_by_max and grouping_by_min the finisher is not called  *)
(* while the input is being consumed; afterwards it is called once per    *)
(* key at most, each time on the item retained for that key, and when the *)
(* call returns the number of calls is the number of distinct keys.       *)
C9_FinisherOncePerKey ==
  (op \in Minmax) =>
    /\ pc = "loop" => calls = <<>>
    /\ pc \in {"finish", "done"} =>
         /\ i = Len(S)
         /\ \A a \in 1..Len(calls) :
              calls[a] = S[EarliestExtremal(key(calls[a]), type_ord, Len(S))]
         /\ \A a, b \in 1..Len(calls) :
              a # b => key(calls[a]) # key(calls[b])
    /\ pc = "done" =>
         /\ Len(calls) = Cardinality(KeySet(Len(S)))
         /\ Len(calls) = Cardinality(DOMAIN result)

C9_Witness ==
  /\ op = "grouping_by_max"
  /\ pc = "done"
  /\ Len(S) = 3
  /\ Len(calls) = 2
  /\ key(S[1]) = key(S[2])
  /\ comparator(S[2], S[1]) = "Greater"
  /\ S[1] \notin Range(calls)

(* C10: for each of the six operations the keys of the result are exactly *)
(* the keys of the input's items: no key without an item, a key whose     *)
(* values sum to zero is present, an empty input gives an empty map.      *)
C10_KeysAreInputKeys ==
  (pc = "done") => DOMAIN result = KeySet(Len(S))

C10_Witness ==
  /\ pc = "done"
  /\ op = "grouping_by_summing"
  /\ Len(S) = 2
  /\ value(S[1]) # 0
  /\ result = (key(S[1]) :> 0)

====
